---- MODULE Spec2Model ----
(***************************************************************************)
(* CR7 Script front end: the scanner (tokenize) and the recursive-descent  *)
(* recognizer (CR7Parser) of cr7_compiler.py (batch) and cr7_gui.py        *)
(* (interactive).  A source text is a sequence of one-character strings,   *)
(* a lexeme is the sub-sequence the scanner matched, a token is the pair   *)
(* <<kind, value>>.  The recursion of the parser is a stack of frames: the *)
(* statements of the active procedures that are still to run.              *)
(***************************************************************************)
EXTENDS Integers, Sequences, FiniteSets, TLC

VARIABLES code, run, source, lexpos, tokens, pos, stack, output, status

vars == <<code, run, source, lexpos, tokens, pos, stack, output, status>>

\* The two programs: cr7_compiler.py and cr7_gui.py.
Modes == {"batch", "gui"}

----------------------------------------------------------------------------
\* Character classes of the regular expressions.

Letters ==
    {"a", "b", "c", "d", "e", "f", "g", "h", "i", "j", "k", "l", "m", "n",
     "o", "p", "q", "r", "s", "t", "u", "v", "w", "x", "y", "z", "A", "B",
     "C", "D", "E", "F", "G", "H", "I", "J", "K", "L", "M", "N", "O", "P",
     "Q", "R", "S", "T", "U", "V", "W", "X", "Y", "Z", "_"}

Digits == {"0", "1", "2", "3", "4", "5", "6", "7", "8", "9"}

WordChars == Letters \cup Digits

OpChars == {"+", "-", "*", "/", "<", ">", "!", "="}

\* The whitespace characters ("\f" stands for those that are neither space,
\* tab nor newline).
WhitespaceChars == {" ", "\t", "\n", "\f"}

\* Those of them that tokenize discards.
Discarded == {" ", "\t", "\n"}

\* The reserved spellings.
w_play == <<"p", "l", "a", "y">>
w_kickoff == <<"k", "i", "c", "k", "o", "f", "f">>
w_whistle == <<"w", "h", "i", "s", "t", "l", "e">>
w_goal == <<"g", "o", "a", "l">>
w_player == <<"p", "l", "a", "y", "e", "r">>
w_flag == <<"f", "l", "a", "g">>
w_match == <<"m", "a", "t", "c", "h">>
w_referee == <<"r", "e", "f", "e", "r", "e", "e">>
w_bench == <<"b", "e", "n", "c", "h">>
w_practice == <<"p", "r", "a", "c", "t", "i", "c", "e">>
w_drill == <<"d", "r", "i", "l", "l">>
w_listen == <<"l", "i", "s", "t", "e", "n">>
w_announce == <<"a", "n", "n", "o", "u", "n", "c", "e">>
w_import == <<"#", "i", "m", "p", "o", "r", "t">>
w_stadium == <<"s", "t", "a", "d", "i", "u", "m">>

\* KEYWORDS, in the order the dictionary is written (the order .items() walks).
KEYWORDS(m) ==
    IF m = "batch"
    THEN << <<"FUNCTION", {w_play, w_kickoff, w_whistle}>>,
            <<"TYPE", {w_goal, w_player, w_flag, w_match}>>,
            <<"CONTROL", {w_referee, w_bench, w_practice, w_drill}>>,
            <<"INPUT", {w_listen}>>,
            <<"OUTPUT", {w_announce}>>,
            <<"META", {w_import, w_stadium}>> >>
    ELSE << <<"FUNCTION", {w_play, w_kickoff, w_whistle}>>,
            <<"TYPE", {w_goal, w_player, w_flag, w_match}>>,
            <<"CONTROL", {w_referee, w_bench, w_practice, w_drill}>>,
            <<"OUTPUT", {w_announce}>>,
            <<"INPUT", {w_listen}>>,
            <<"META", {w_import, w_stadium}>> >>

\* f"{group_name}_KEYWORD"
KeywordKind(group_name) ==
    CASE group_name = "FUNCTION" -> "FUNCTION_KEYWORD"
      [] group_name = "TYPE" -> "TYPE_KEYWORD"
      [] group_name = "CONTROL" -> "CONTROL_KEYWORD"
      [] group_name = "INPUT" -> "INPUT_KEYWORD"
      [] group_name = "OUTPUT" -> "OUTPUT_KEYWORD"
      [] group_name = "META" -> "META_KEYWORD"

\* The names of token_specification, in order: the alternatives of token_regex.
token_specification ==
    <<"META", "COMMENT", "NUMBER", "ASSIGN", "COMMA", "END", "LPAREN",
      "RPAREN", "LBRACE", "RBRACE", "STRING", "ID", "OP", "NEWLINE", "SKIP",
      "MISMATCH">>

\* The number of consecutive characters of text, from index i on, that are in S.
RECURSIVE RunLen(_, _, _)
RunLen(text, i, S) ==
    IF i <= Len(text) /\ text[i] \in S THEN 1 + RunLen(text, i + 1, S) ELSE 0

\* The number of consecutive characters of text, from index i on, that are not c.
RECURSIVE RunLenNot(_, _, _)
RunLenNot(text, i, c) ==
    IF i <= Len(text) /\ text[i] # c THEN 1 + RunLenNot(text, i + 1, c) ELSE 0

IsChar(text, i, c) == i <= Len(text) /\ text[i] = c

\* The length of the match of one alternative at index i of text (1-based), 0
\* when the alternative does not match there.  Each pattern is greedy.
MatchLen(name, text, i) ==
    CASE name = "META" ->                                   \* #\w+
           IF IsChar(text, i, "#") /\ RunLen(text, i + 1, WordChars) > 0
           THEN 1 + RunLen(text, i + 1, WordChars) ELSE 0
      [] name = "COMMENT" ->                                \* //.*
           IF IsChar(text, i, "/") /\ IsChar(text, i + 1, "/")
           THEN 2 + RunLenNot(text, i + 2, "\n") ELSE 0
      [] name = "NUMBER" ->                                 \* \d+(\.\d+)?
           LET d == RunLen(text, i, Digits)
               f == RunLen(text, i + d + 1, Digits)
           IN  IF d = 0 THEN 0
               ELSE IF IsChar(text, i + d, ".") /\ f > 0 THEN d + 1 + f ELSE d
      [] name = "ASSIGN" -> IF IsChar(text, i, "=") THEN 1 ELSE 0
      [] name = "COMMA" -> IF IsChar(text, i, ",") THEN 1 ELSE 0
      [] name = "END" -> IF IsChar(text, i, ";") THEN 1 ELSE 0
      [] name = "LPAREN" -> IF IsChar(text, i, "(") THEN 1 ELSE 0
      [] name = "RPAREN" -> IF IsChar(text, i, ")") THEN 1 ELSE 0
      [] name = "LBRACE" -> IF IsChar(text, i, "{") THEN 1 ELSE 0
      [] name = "RBRACE" -> IF IsChar(text, i, "}") THEN 1 ELSE 0
      [] name = "STRING" ->                                 \* "[^"]*"
           LET n == RunLenNot(text, i + 1, "\"")
           IN  IF IsChar(text, i, "\"") /\ i + 1 + n <= Len(text)
               THEN n + 2 ELSE 0
      [] name = "ID" ->                                     \* [A-Za-z_]\w*
           IF i <= Len(text) /\ text[i] \in Letters
           THEN 1 + RunLen(text, i + 1, WordChars) ELSE 0
      [] name = "OP" -> RunLen(text, i, OpChars)            \* [+\-*/<>!=]+
      [] name = "NEWLINE" -> IF IsChar(text, i, "\n") THEN 1 ELSE 0
      [] name = "SKIP" -> RunLen(text, i, {" ", "\t"})      \* [ \t]+
      [] name = "MISMATCH" ->                               \* .
           IF i <= Len(text) /\ text[i] # "\n" THEN 1 ELSE 0

\* match.lastgroup: the first alternative, in the order of the regular
\* expression, that matches at index i.
lastgroup(text, i) ==
    LET k == CHOOSE k \in 1..Len(token_specification) :
                 /\ MatchLen(token_specification[k], text, i) > 0
                 /\ \A j \in 1..(k - 1) :
                        MatchLen(token_specification[j], text, i) = 0
    IN  token_specification[k]

\* Mutant: the loop over the groups leaves after the first group.
Classify_first_group(m, value) ==
    IF value \in KEYWORDS(m)[1][2]
    THEN KeywordKind(KEYWORDS(m)[1][1])
    ELSE "ID"

\* The keyword lookup of an ID match: the first group that lists the value.
Classify(m, value) ==
    LET hits == {k \in 1..Len(KEYWORDS(m)) : value \in KEYWORDS(m)[k][2]}
    IN  IF hits = {} THEN "ID"
        ELSE KeywordKind(KEYWORDS(m)[CHOOSE k \in hits : \A j \in hits : k <= j][1])

\* Mutant: a comment is not dropped.
tokenize_step_keep_comment(m, text, i, acc) ==
    LET kind == lastgroup(text, i)
        n == MatchLen(kind, text, i)
        value == SubSeq(text, i, i + n - 1)
        go(toks) == [raised |-> FALSE, value |-> <<>>, tokens |-> toks,
                     next |-> i + n]
    IN  CASE kind = "COMMENT" -> go(Append(acc, <<kind, value>>))
          [] kind = "META" -> go(Append(acc, <<"META_KEYWORD", value>>))
          [] kind = "ID" -> go(Append(acc, <<Classify(m, value), value>>))
          [] kind \in {"SKIP", "NEWLINE"} -> go(acc)
          [] kind = "MISMATCH" ->
               [raised |-> TRUE, value |-> value, tokens |-> acc, next |-> i]
          [] OTHER -> go(Append(acc, <<kind, value>>))

\* Mutant: a MISMATCH is dropped like whitespace.
tokenize_step_skip_mismatch(m, text, i, acc) ==
    LET kind == lastgroup(text, i)
        n == MatchLen(kind, text, i)
        value == SubSeq(text, i, i + n - 1)
        go(toks) == [raised |-> FALSE, value |-> <<>>, tokens |-> toks,
                     next |-> i + n]
    IN  CASE kind = "COMMENT" -> go(acc)
          [] kind = "META" -> go(Append(acc, <<"META_KEYWORD", value>>))
          [] kind = "ID" -> go(Append(acc, <<Classify(m, value), value>>))
          [] kind \in {"SKIP", "NEWLINE"} -> go(acc)
          [] kind = "MISMATCH" -> go(acc)
          [] OTHER -> go(Append(acc, <<kind, value>>))

\* Mutant: the lexeme of a string is the text between its quotes.
tokenize_step_strip_quotes(m, text, i, acc) ==
    LET kind == lastgroup(text, i)
        n == MatchLen(kind, text, i)
        value == SubSeq(text, i, i + n - 1)
        go(toks) == [raised |-> FALSE, value |-> <<>>, tokens |-> toks,
                     next |-> i + n]
    IN  CASE kind = "COMMENT" -> go(acc)
          [] kind = "META" -> go(Append(acc, <<"META_KEYWORD", value>>))
          [] kind = "ID" -> go(Append(acc, <<Classify(m, value), value>>))
          [] kind = "STRING" ->
               go(Append(acc, <<kind, SubSeq(text, i + 1, i + n - 2)>>))
          [] kind \in {"SKIP", "NEWLINE"} -> go(acc)
          [] kind = "MISMATCH" ->
               [raised |-> TRUE, value |-> value, tokens |-> acc, next |-> i]
          [] OTHER -> go(Append(acc, <<kind, value>>))

\* One iteration of the loop of tokenize over re.finditer: the match at index
\* i of the text, with the tokens so far.  The result: raised (the
\* RuntimeError of a MISMATCH) with its character, or the tokens after the
\* iteration and the index where the next match starts.
tokenize_step(m, text, i, acc) ==
    LET kind == lastgroup(text, i)
        n == MatchLen(kind, text, i)
        value == SubSeq(text, i, i + n - 1)
        go(toks) == [raised |-> FALSE, value |-> <<>>, tokens |-> toks,
                     next |-> i + n]
    IN  CASE kind = "COMMENT" -> go(acc)
          [] kind = "META" -> go(Append(acc, <<"META_KEYWORD", value>>))
          [] kind = "ID" -> go(Append(acc, <<Classify(m, value), value>>))
          [] kind \in {"SKIP", "NEWLINE"} -> go(acc)
          [] kind = "MISMATCH" ->
               [raised |-> TRUE, value |-> value, tokens |-> acc, next |-> i]
          [] OTHER -> go(Append(acc, <<kind, value>>))

\* The end of tokenize, after the last match.
tokenize_end(acc) == Append(acc, <<"EOF", <<>>>>)

----------------------------------------------------------------------------
\* The recognizer.  self is the parser object: tokens, pos, the frames still
\* to run (stack), the lines logged so far (out) and how the run stands.

NoValue == <<>>      \* None, for an expected value or an identifier not given

\* Frames: a call of self.match, a log line, a call of a grammar procedure
\* (entered at the point "at" of its body).
M(expected_type) ==
    [op |-> "match", name |-> expected_type, at |-> "", val |-> NoValue]
MV(expected_type, expected_value) ==
    [op |-> "match", name |-> expected_type, at |-> "", val |-> expected_value]
L(msg) == [op |-> "log", name |-> msg, at |-> "", val |-> NoValue]
LV(msg, ident) == [op |-> "log", name |-> msg, at |-> "", val |-> ident]
C(proc) == [op |-> "call", name |-> proc, at |-> "", val |-> NoValue]
CA(proc, at) == [op |-> "call", name |-> proc, at |-> at, val |-> NoValue]

\* A line of the record: the header, a trace entry (info), the completion
\* marker (success), the diagnostic (error) or the lexer's error.
Entry(tag, msg, type, arg, kind, value) ==
    [tag |-> tag, msg |-> msg, type |-> type, arg |-> arg, kind |-> kind,
     value |-> value]

current_token(self) == self.tokens[self.pos + 1]

cur_kind(self) == current_token(self)[1]
cur_value(self) == current_token(self)[2]

lookahead(self, n) ==
    IF self.pos + n < Len(self.tokens)
    THEN self.tokens[self.pos + n + 1]
    ELSE <<"EOF", <<>>>>

\* The statements that follow in the running procedure, then its callers'.
Then(self, frames) == [self EXCEPT !.stack = frames \o @]

log(self, entry) == [self EXCEPT !.out = Append(@, entry)]

\* Mutant: the diagnostic is logged and the run goes on.
error_continues(self, msg, type, arg, actual) ==
    LET tok == IF actual = NoValue THEN current_token(self) ELSE actual
    IN  [self EXCEPT
            !.out = Append(@, Entry("error", msg, type, arg, tok[1], tok[2]))]

\* error: one diagnostic, then sys.exit(1) / raise SystemExit(1) unwinds
\* every procedure.  actual is the token passed, or NoValue for none.
error(self, msg, type, arg, actual) ==
    LET tok == IF actual = NoValue THEN current_token(self) ELSE actual
    IN  [self EXCEPT
            !.out = Append(@, Entry("error", msg, type, arg, tok[1], tok[2])),
            !.stack = <<>>,
            !.status = "error"]

\* Mutant: a failed match gives the previous token back.
match_backtrack(self, expected_type, expected_value) ==
    LET kind == cur_kind(self)
        value == cur_value(self)
    IN  IF kind = expected_type
           /\ (expected_value = NoValue \/ value = expected_value)
        THEN [self EXCEPT !.pos = @ + 1]
        ELSE error([self EXCEPT !.pos = IF @ > 0 THEN @ - 1 ELSE 0],
                   "Expected", expected_type, expected_value, <<kind, value>>)

match(self, expected_type, expected_value) ==
    LET kind == cur_kind(self)
        value == cur_value(self)
    IN  IF kind = expected_type
           /\ (expected_value = NoValue \/ value = expected_value)
        THEN [self EXCEPT !.pos = @ + 1]
        ELSE error(self, "Expected", expected_type, expected_value,
                   <<kind, value>>)

parse_program(self, at) ==
    IF at = ""
    THEN Then(log(self, Entry("header", "Starting CR7 Script Parsing",
                              "", NoValue, "", NoValue)),
              <<CA("parse_program", "while")>>)
    ELSE IF cur_kind(self) # "EOF"
         THEN IF cur_kind(self) = "META_KEYWORD"
              THEN Then(self, <<C("parse_meta"), CA("parse_program", "while")>>)
              ELSE IF cur_kind(self) = "FUNCTION_KEYWORD"
              THEN Then(self, <<C("parse_function"),
                                CA("parse_program", "while")>>)
              ELSE error(self, "Unexpected statement start", "",
                         cur_value(self), NoValue)
         ELSE [log(self, Entry("success", "Parsing completed successfully",
                               "", NoValue, "", NoValue))
                 EXCEPT !.status = "success"]

parse_meta(self, at) ==
    IF at = ""
    THEN Then(self, <<MV("META_KEYWORD", w_import), CA("parse_meta", "if")>>)
    ELSE IF cur_value(self) = w_stadium
         THEN Then(self, <<MV("META_KEYWORD", w_stadium),
                           L("Meta statement parsed")>>)
         ELSE error(self, "Expected 'stadium' after #import", "", NoValue,
                    NoValue)

FunctionRest ==
    <<M("LPAREN"), C("parse_param_list"), M("RPAREN"), M("LBRACE"),
      C("parse_statement_list"), M("RBRACE"), L("Function parsed")>>

\* Mutant: the function's entry is logged when its body starts.
parse_function_log_first(m, self, at) ==
    LET rest == <<M("LPAREN"), C("parse_param_list"), M("RPAREN"),
                  M("LBRACE"), L("Function parsed"),
                  C("parse_statement_list"), M("RBRACE")>>
    IN  IF m = "batch"
        THEN Then(self, <<MV("FUNCTION_KEYWORD", w_play), M("ID")>> \o rest)
        ELSE IF at = ""
             THEN Then(self, <<MV("FUNCTION_KEYWORD", w_play),
                               CA("parse_function", "name")>> \o rest)
             ELSE IF cur_kind(self) \in {"ID", "FUNCTION_KEYWORD"}
                  THEN [self EXCEPT !.pos = @ + 1]
                  ELSE error(self, "Expected function name after 'play'", "",
                             NoValue, NoValue)

\* Mutant: the cursor steps over whatever token follows play.
parse_function_any_name(m, self, at) ==
    IF m = "batch"
    THEN Then(self, <<MV("FUNCTION_KEYWORD", w_play), M("ID")>> \o FunctionRest)
    ELSE IF at = ""
         THEN Then(self, <<MV("FUNCTION_KEYWORD", w_play),
                           CA("parse_function", "name")>> \o FunctionRest)
         ELSE [self EXCEPT !.pos = @ + 1]

parse_function(m, self, at) ==
    IF m = "batch"
    THEN Then(self, <<MV("FUNCTION_KEYWORD", w_play), M("ID")>> \o FunctionRest)
    ELSE IF at = ""
         THEN Then(self, <<MV("FUNCTION_KEYWORD", w_play),
                           CA("parse_function", "name")>> \o FunctionRest)
         ELSE IF cur_kind(self) \in {"ID", "FUNCTION_KEYWORD"}
              THEN [self EXCEPT !.pos = @ + 1]
              ELSE error(self, "Expected function name after 'play'", "",
                         NoValue, NoValue)

parse_param_list(self, at) ==
    IF at = ""
    THEN IF cur_kind(self) = "TYPE_KEYWORD"
         THEN Then(self, <<M("TYPE_KEYWORD"), M("ID"),
                           CA("parse_param_list", "while")>>)
         ELSE self
    ELSE IF cur_kind(self) = "COMMA"
         THEN Then(self, <<M("COMMA"), M("TYPE_KEYWORD"), M("ID"),
                           CA("parse_param_list", "while")>>)
         ELSE self

parse_statement_list(self) ==
    IF cur_kind(self) \notin {"EOF", "RBRACE"}
    THEN Then(self, <<C("parse_statement"), C("parse_statement_list")>>)
    ELSE self

parse_statement(self) ==
    LET kind == cur_kind(self)
        value == cur_value(self)
    IN  IF kind = "TYPE_KEYWORD" THEN Then(self, <<C("parse_declaration")>>)
        ELSE IF kind = "ID" THEN Then(self, <<C("parse_assignment")>>)
        ELSE IF kind = "CONTROL_KEYWORD"
        THEN IF value = w_referee THEN Then(self, <<C("parse_if")>>)
             ELSE IF value = w_practice THEN Then(self, <<C("parse_while")>>)
             ELSE IF value = w_drill THEN Then(self, <<C("parse_for")>>)
             ELSE IF value = w_bench THEN self
             ELSE error(self, "Unknown control keyword", "", value,
                        <<kind, value>>)
        ELSE IF kind = "OUTPUT_KEYWORD" THEN Then(self, <<C("parse_output")>>)
        ELSE IF kind = "INPUT_KEYWORD" THEN Then(self, <<C("parse_input")>>)
        ELSE IF kind = "FUNCTION_KEYWORD" /\ value = w_whistle
        THEN Then(self, <<C("parse_return")>>)
        ELSE error(self, "Unexpected statement start", "", value,
                   <<kind, value>>)

parse_declaration(self, at) ==
    IF at = ""
    THEN Then(self, <<M("TYPE_KEYWORD"), M("ID"), CA("parse_declaration", "if"),
                      M("END"), L("Declaration parsed")>>)
    ELSE IF cur_kind(self) = "ASSIGN"
         THEN Then(self, <<M("ASSIGN"), C("parse_expr")>>)
         ELSE self

parse_assignment(self) ==
    Then(self, <<M("ID"), M("ASSIGN"), C("parse_expr"), M("END"),
                 L("Assignment parsed")>>)

parse_if(self, at) ==
    IF at = ""
    THEN Then(self, <<MV("CONTROL_KEYWORD", w_referee), M("LPAREN"),
                      C("parse_condition"), M("RPAREN"), M("LBRACE"),
                      C("parse_statement_list"), M("RBRACE"),
                      CA("parse_if", "else")>>)
    ELSE IF cur_value(self) = w_bench
         THEN Then(self, <<MV("CONTROL_KEYWORD", w_bench), M("LBRACE"),
                           C("parse_statement_list"), M("RBRACE"),
                           L("If statement parsed")>>)
         ELSE Then(self, <<L("If statement parsed")>>)

parse_while(self) ==
    Then(self, <<MV("CONTROL_KEYWORD", w_practice), M("LPAREN"),
                 C("parse_condition"), M("RPAREN"), M("LBRACE"),
                 C("parse_statement_list"), M("RBRACE"), L("While parsed")>>)

parse_for(self, at) ==
    CASE at = "" ->
           Then(self, <<MV("CONTROL_KEYWORD", w_drill), M("LPAREN"),
                        CA("parse_for", "init")>>)
      [] at = "init" ->
           IF cur_kind(self) = "TYPE_KEYWORD"
           THEN Then(self, <<C("parse_declaration_in_for"), M("END"),
                             CA("parse_for", "condition")>>)
           ELSE IF cur_kind(self) = "ID"
           THEN Then(self, <<C("parse_assignment_in_for"), M("END"),
                             CA("parse_for", "condition")>>)
           ELSE Then(self, <<M("END"), CA("parse_for", "condition")>>)
      [] at = "condition" ->
           IF cur_kind(self) # "END"
           THEN Then(self, <<C("parse_condition"), M("END"),
                             CA("parse_for", "update")>>)
           ELSE Then(self, <<M("END"), CA("parse_for", "update")>>)
      [] at = "update" ->
           LET rest == <<M("RPAREN"), M("LBRACE"), C("parse_statement_list"),
                         M("RBRACE"), L("For parsed")>>
           IN  IF cur_kind(self) = "ID"
               THEN Then(self, <<C("parse_assignment_in_for")>> \o rest)
               ELSE Then(self, rest)

parse_declaration_in_for(self, at) ==
    IF at = ""
    THEN Then(self, <<M("TYPE_KEYWORD"), M("ID"),
                      CA("parse_declaration_in_for", "if"),
                      L("For-init declaration parsed")>>)
    ELSE IF cur_kind(self) = "ASSIGN"
         THEN Then(self, <<M("ASSIGN"), C("parse_expr")>>)
         ELSE self

parse_assignment_in_for(self, at) ==
    IF at = ""
    THEN Then(self, <<M("ID"), CA("parse_assignment_in_for", "kind")>>)
    ELSE IF cur_kind(self) = "ASSIGN"
         THEN Then(self, <<M("ASSIGN"), C("parse_expr"),
                           L("For-update parsed (assignment)")>>)
         ELSE IF cur_kind(self) = "OP"
                 /\ cur_value(self) \in {<<"+", "+">>, <<"-", "-">>}
         THEN Then(self, <<M("OP"),
                           L("For-update parsed (increment/decrement)")>>)
         ELSE error(self, "Expected '=' or '++'/'--' in for update", "",
                    NoValue, NoValue)

parse_output(self) ==
    Then(self, <<M("OUTPUT_KEYWORD"), C("parse_expr"), M("END"),
                 L("Output parsed")>>)

parse_input(self) ==
    Then(self, <<M("INPUT_KEYWORD"), M("ID"), M("END"), L("Input parsed")>>)

parse_return(self) ==
    Then(self, <<MV("FUNCTION_KEYWORD", w_whistle), C("parse_expr"), M("END"),
                 L("Return parsed")>>)

parse_condition(self, at) ==
    IF at = ""
    THEN Then(self, <<C("parse_expr"), CA("parse_condition", "if")>>)
    ELSE IF cur_kind(self) = "OP"
         THEN Then(self, <<M("OP"), C("parse_expr")>>)
         ELSE error(self, "Expected relational operator in condition", "",
                    NoValue, NoValue)

parse_expr(self, at) ==
    IF at = ""
    THEN Then(self, <<C("parse_term"), CA("parse_expr", "while")>>)
    ELSE IF cur_kind(self) = "OP" /\ cur_value(self) \in {<<"+">>, <<"-">>}
         THEN Then(self, <<M("OP"), C("parse_term"), CA("parse_expr", "while")>>)
         ELSE self

parse_term(self, at) ==
    IF at = ""
    THEN Then(self, <<C("parse_factor"), CA("parse_term", "while")>>)
    ELSE IF cur_kind(self) = "OP" /\ cur_value(self) \in {<<"*">>, <<"/">>}
         THEN Then(self, <<M("OP"), C("parse_factor"),
                           CA("parse_term", "while")>>)
         ELSE self

\* Mutant: the interactive recognizer does not consume a name that is no call.
parse_factor_no_bare_name(m, self, at) ==
    LET kind == cur_kind(self)
        value == cur_value(self)
    IN  IF m = "batch"
        THEN IF kind \in {"NUMBER", "STRING", "ID"} THEN Then(self, <<M(kind)>>)
             ELSE IF kind = "LPAREN"
             THEN Then(self, <<M("LPAREN"), C("parse_expr"), M("RPAREN")>>)
             ELSE error(self, "Invalid factor", "", NoValue, NoValue)
        ELSE CASE at = "" ->
                    IF kind \in {"ID", "FUNCTION_KEYWORD"}
                    THEN IF lookahead(self, 1)[1] = "LPAREN"
                         THEN Then(self, <<M(kind), M("LPAREN"),
                                           CA("parse_factor", "args"),
                                           M("RPAREN"),
                                           LV("Function call parsed", value)>>)
                         ELSE self
                    ELSE IF kind \in {"NUMBER", "STRING"}
                    THEN Then(self, <<M(kind)>>)
                    ELSE IF kind = "LPAREN"
                    THEN Then(self, <<M("LPAREN"), C("parse_expr"),
                                      M("RPAREN")>>)
                    ELSE error(self, "Invalid factor", "", NoValue, NoValue)
               [] at = "args" ->
                    IF kind # "RPAREN"
                    THEN Then(self, <<C("parse_expr"),
                                      CA("parse_factor", "while")>>)
                    ELSE self
               [] at = "while" ->
                    IF kind = "COMMA"
                    THEN Then(self, <<M("COMMA"), C("parse_expr"),
                                      CA("parse_factor", "while")>>)
                    ELSE self

\* Mutant: the token looked at is the second after the name.
parse_factor_lookahead_two(m, self, at) ==
    LET kind == cur_kind(self)
        value == cur_value(self)
    IN  IF m = "batch"
        THEN IF kind \in {"NUMBER", "STRING", "ID"} THEN Then(self, <<M(kind)>>)
             ELSE IF kind = "LPAREN"
             THEN Then(self, <<M("LPAREN"), C("parse_expr"), M("RPAREN")>>)
             ELSE error(self, "Invalid factor", "", NoValue, NoValue)
        ELSE CASE at = "" ->
                    IF kind \in {"ID", "FUNCTION_KEYWORD"}
                    THEN IF lookahead(self, 2)[1] = "LPAREN"
                         THEN Then(self, <<M(kind), M("LPAREN"),
                                           CA("parse_factor", "args"),
                                           M("RPAREN"),
                                           LV("Function call parsed", value)>>)
                         ELSE Then(self, <<M(kind)>>)
                    ELSE IF kind \in {"NUMBER", "STRING"}
                    THEN Then(self, <<M(kind)>>)
                    ELSE IF kind = "LPAREN"
                    THEN Then(self, <<M("LPAREN"), C("parse_expr"),
                                      M("RPAREN")>>)
                    ELSE error(self, "Invalid factor", "", NoValue, NoValue)
               [] at = "args" ->
                    IF kind # "RPAREN"
                    THEN Then(self, <<C("parse_expr"),
                                      CA("parse_factor", "while")>>)
                    ELSE self
               [] at = "while" ->
                    IF kind = "COMMA"
                    THEN Then(self, <<M("COMMA"), C("parse_expr"),
                                      CA("parse_factor", "while")>>)
                    ELSE self

parse_factor(m, self, at) ==
    LET kind == cur_kind(self)
        value == cur_value(self)
    IN  IF m = "batch"
        THEN IF kind \in {"NUMBER", "STRING", "ID"} THEN Then(self, <<M(kind)>>)
             ELSE IF kind = "LPAREN"
             THEN Then(self, <<M("LPAREN"), C("parse_expr"), M("RPAREN")>>)
             ELSE error(self, "Invalid factor", "", NoValue, NoValue)
        ELSE CASE at = "" ->
                    IF kind \in {"ID", "FUNCTION_KEYWORD"}
                    THEN IF lookahead(self, 1)[1] = "LPAREN"
                         THEN Then(self, <<M(kind), M("LPAREN"),
                                           CA("parse_factor", "args"),
                                           M("RPAREN"),
                                           LV("Function call parsed", value)>>)
                         ELSE Then(self, <<M(kind)>>)
                    ELSE IF kind \in {"NUMBER", "STRING"}
                    THEN Then(self, <<M(kind)>>)
                    ELSE IF kind = "LPAREN"
                    THEN Then(self, <<M("LPAREN"), C("parse_expr"),
                                      M("RPAREN")>>)
                    ELSE error(self, "Invalid factor", "", NoValue, NoValue)
               [] at = "args" ->
                    IF kind # "RPAREN"
                    THEN Then(self, <<C("parse_expr"),
                                      CA("parse_factor", "while")>>)
                    ELSE self
               [] at = "while" ->
                    IF kind = "COMMA"
                    THEN Then(self, <<M("COMMA"), C("parse_expr"),
                                      CA("parse_factor", "while")>>)
                    ELSE self

----------------------------------------------------------------------------
\* The source texts of the runs.

\* #import stadium
ScenarioA ==
    <<"#", "i", "m", "p", "o", "r", "t", " ", "s", "t", "a", "d", "i", "u",
      "m">>

\* play main() { goal x = 5; announce x; }
ScenarioB ==
    <<"p", "l", "a", "y", " ", "m", "a", "i", "n", "(", ")", " ", "{", " ",
      "g", "o", "a", "l", " ", "x", " ", "=", " ", "5", ";", " ", "a", "n",
      "n", "o", "u", "n", "c", "e", " ", "x", ";", " ", "}">>

\* play main() { x = ; }
ScenarioC ==
    <<"p", "l", "a", "y", " ", "m", "a", "i", "n", "(", ")", " ", "{", " ",
      "x", " ", "=", " ", ";", " ", "}">>

\* play main() { drill (flag i = 0; i < 10; i++) { announce i; } }
ScenarioD ==
    <<"p", "l", "a", "y", " ", "m", "a", "i", "n", "(", ")", " ", "{", " ",
      "d", "r", "i", "l", "l", " ", "(", "f", "l", "a", "g", " ", "i", " ",
      "=", " ", "0", ";", " ", "i", " ", "<", " ", "1", "0", ";", " ", "i",
      "+", "+", ")", " ", "{", " ", "a", "n", "n", "o", "u", "n", "c", "e",
      " ", "i", ";", " ", "}", " ", "}">>

\* play main() { announce add(1,2); }
ScenarioE ==
    <<"p", "l", "a", "y", " ", "m", "a", "i", "n", "(", ")", " ", "{", " ",
      "a", "n", "n", "o", "u", "n", "c", "e", " ", "a", "d", "d", "(", "1",
      ",", "2", ")", ";", " ", "}">>

\* play kickoff() { whistle 0; }
KeywordName ==
    <<"p", "l", "a", "y", " ", "k", "i", "c", "k", "o", "f", "f", "(", ")",
      " ", "{", " ", "w", "h", "i", "s", "t", "l", "e", " ", "0", ";", " ",
      "}">>

\* #import stadium\nplay f(goal a, flag b) {\n  referee (a < b) { listen a; } bench { whistle a + b * 2; }\n  practice (a != 1) { a = (a - 1) / 2; } // halve\n}
Branches ==
    <<"#", "i", "m", "p", "o", "r", "t", " ", "s", "t", "a", "d", "i", "u",
      "m", "\n", "p", "l", "a", "y", " ", "f", "(", "g", "o", "a", "l", " ",
      "a", ",", " ", "f", "l", "a", "g", " ", "b", ")", " ", "{", "\n", " ",
      " ", "r", "e", "f", "e", "r", "e", "e", " ", "(", "a", " ", "<", " ",
      "b", ")", " ", "{", " ", "l", "i", "s", "t", "e", "n", " ", "a", ";",
      " ", "}", " ", "b", "e", "n", "c", "h", " ", "{", " ", "w", "h", "i",
      "s", "t", "l", "e", " ", "a", " ", "+", " ", "b", " ", "*", " ", "2",
      ";", " ", "}", "\n", " ", " ", "p", "r", "a", "c", "t", "i", "c", "e",
      " ", "(", "a", " ", "!", "=", " ", "1", ")", " ", "{", " ", "a", " ",
      "=", " ", "(", "a", " ", "-", " ", "1", ")", " ", "/", " ", "2", ";",
      " ", "}", " ", "/", "/", " ", "h", "a", "l", "v", "e", "\n", "}">>

\* play f() { drill (i = 0; ; i = i + 1) { } drill (; i > 0; ) { goal s = "a"; } }
ForAssign ==
    <<"p", "l", "a", "y", " ", "f", "(", ")", " ", "{", " ", "d", "r", "i",
      "l", "l", " ", "(", "i", " ", "=", " ", "0", ";", " ", ";", " ", "i",
      " ", "=", " ", "i", " ", "+", " ", "1", ")", " ", "{", " ", "}", " ",
      "d", "r", "i", "l", "l", " ", "(", ";", " ", "i", " ", ">", " ", "0",
      ";", " ", ")", " ", "{", " ", "g", "o", "a", "l", " ", "s", " ", "=",
      " ", "\"", "a", "\"", ";", " ", "}", " ", "}">>

\* play f() { referee (x == 1) { } }
Equality ==
    <<"p", "l", "a", "y", " ", "f", "(", ")", " ", "{", " ", "r", "e", "f",
      "e", "r", "e", "e", " ", "(", "x", " ", "=", "=", " ", "1", ")", " ",
      "{", " ", "}", " ", "}">>

\* play f() { goal x; bench }
BareBench ==
    <<"p", "l", "a", "y", " ", "f", "(", ")", " ", "{", " ", "g", "o", "a",
      "l", " ", "x", ";", " ", "b", "e", "n", "c", "h", " ", "}">>

\* play f() { referee (x < 1) { } bench x = 1; }
BadControl ==
    <<"p", "l", "a", "y", " ", "f", "(", ")", " ", "{", " ", "r", "e", "f",
      "e", "r", "e", "e", " ", "(", "x", " ", "<", " ", "1", ")", " ", "{",
      " ", "}", " ", "b", "e", "n", "c", "h", " ", "x", " ", "=", " ", "1",
      ";", " ", "}">>

\* play f() { x = 1 @ 2 # }
BadChars ==
    <<"p", "l", "a", "y", " ", "f", "(", ")", " ", "{", " ", "x", " ", "=",
      " ", "1", " ", "@", " ", "2", " ", "#", " ", "}">>

\* play f() { announce "a //b"; goal y = 1.5; } // end
Strings ==
    <<"p", "l", "a", "y", " ", "f", "(", ")", " ", "{", " ", "a", "n", "n",
      "o", "u", "n", "c", "e", " ", "\"", "a", " ", "/", "/", "b", "\"", ";",
      " ", "g", "o", "a", "l", " ", "y", " ", "=", " ", "1", ".", "5", ";",
      " ", "}", " ", "/", "/", " ", "e", "n", "d">>

\* play main() { x = kickoff() + g(h(1), y) * play; }
Calls ==
    <<"p", "l", "a", "y", " ", "m", "a", "i", "n", "(", ")", " ", "{", " ",
      "x", " ", "=", " ", "k", "i", "c", "k", "o", "f", "f", "(", ")", " ",
      "+", " ", "g", "(", "h", "(", "1", ")", ",", " ", "y", ")", " ", "*",
      " ", "p", "l", "a", "y", ";", " ", "}">>

\* play f() { x = g(1,); }
BadCall ==
    <<"p", "l", "a", "y", " ", "f", "(", ")", " ", "{", " ", "x", " ", "=",
      " ", "g", "(", "1", ",", ")", ";", " ", "}">>

\* play f(){ 
BodyPrefix ==
    <<"p", "l", "a", "y", " ", "f", "(", ")", "{", " ">>

\* Concatenation of a sequence of texts.
RECURSIVE Flatten(_)
Flatten(ss) == IF ss = <<>> THEN <<>> ELSE Head(ss) \o Flatten(Tail(ss))

\* The sequences of at most n elements of S.
SeqUpTo(S, n) == UNION {[1..k -> S] : k \in 0..n}

MaxPieces == 2       \* pieces of a free text
MaxFrags == 2        \* statements of the body of a generated function

\* Single characters of the lexical classes ("\f" stands for the whitespace
\* that is neither space, tab nor newline), the comment opener and one
\* reserved spelling of each group.
Pieces ==
    {<<"=">>, <<"!">>, <<"+">>, <<"-">>, <<"/", "/">>, <<" ">>, <<"\n">>,
     <<"\t">>, <<"\f">>, <<"@">>, <<"\"">>, <<"x">>, <<"1">>, <<"#">>,
     w_play, w_goal, w_bench, w_listen, w_announce, w_stadium}

\* Every reserved spelling, between two contexts.
AllKeywords ==
    {w_play, w_kickoff, w_whistle, w_goal, w_player, w_flag, w_match,
     w_referee, w_bench, w_practice, w_drill, w_listen, w_announce, w_import,
     w_stadium}

Contexts == {<<>>, <<" ">>, <<"x">>, <<"1", " ">>, <<"(">>, <<"\n">>}

KeywordTexts == {a \o w \o b : a \in Contexts, w \in AllKeywords, b \in Contexts}

\* Statements and fragments of statements, each followed by a space.
Frags ==
    {<<"x", "=", "1", ";", " ">>,
     w_bench \o <<" ">>,
     w_referee \o <<"(", "x", "<", "1", ")", "{", "}", " ">>,
     <<"{", " ">>,
     <<"}", " ">>,
     w_announce \o <<" ", "f", "(", "1", ")", "+", "x", ";", " ">>,
     w_goal \o <<" ", "x", ";", " ">>,
     w_play \o <<" ", "g", "(", ")", "{", " ">>}

Corpus ==
    {ScenarioA, ScenarioB, ScenarioC, ScenarioD, ScenarioE, KeywordName,
     Branches, ForAssign, Equality, BareBench, BadControl, BadChars,
     Strings, Calls, BadCall}

\* Whole programs: the corpus and the generated functions.
Programs ==
    Corpus
    \cup {BodyPrefix \o Flatten(ss) \o <<"}">> : ss \in SeqUpTo(Frags, MaxFrags)}

Inputs ==
    Programs
    \cup KeywordTexts
    \cup {Flatten(ss) : ss \in SeqUpTo(Pieces, MaxPieces)}

----------------------------------------------------------------------------
\* The state machine.  status[m]: "idle" before the run, "scanning" inside
\* tokenize, "lexerror" after its RuntimeError, "parsing" inside
\* parse_program, then "success" or "error"; "empty" after the warning of
\* run_compiler.  code is the text of the file or of the editor, source[m]
\* the text handed to tokenize, lexpos[m] the index in it where the next
\* match of re.finditer starts.

Self(m) ==
    [tokens |-> tokens[m], pos |-> pos[m], stack |-> stack[m],
     out |-> output[m], status |-> status[m]]

\* The parser with the frame that is about to run taken off.
Popped(m) == [Self(m) EXCEPT !.stack = Tail(@)]

Top(m) == stack[m][1]

Update(m, self) ==
    /\ tokens' = [tokens EXCEPT ![m] = self.tokens]
    /\ pos' = [pos EXCEPT ![m] = self.pos]
    /\ stack' = [stack EXCEPT ![m] = self.stack]
    /\ output' = [output EXCEPT ![m] = self.out]
    /\ status' = [status EXCEPT ![m] = self.status]
    /\ UNCHANGED <<code, run, source, lexpos>>

\* The text s without its leading and trailing characters of ws.
StripOf(s, ws) ==
    LET kept == {i \in 1..Len(s) : s[i] \notin ws}
    IN  IF kept = {} THEN <<>>
        ELSE SubSeq(s, CHOOSE i \in kept : \A j \in kept : i <= j,
                       CHOOSE i \in kept : \A j \in kept : j <= i)

\* str.strip: the text without its leading and trailing whitespace.
strip(s) == StripOf(s, WhitespaceChars)

Running(m) == m \in run /\ status[m] = "parsing" /\ stack[m] # <<>>

At(m, op, name) == Running(m) /\ Top(m).op = op /\ Top(m).name = name

Finished(m) == status[m] \in {"empty", "lexerror", "success", "error"}

\* main / run_compiler: the text is handed to tokenize; run_compiler warns
\* of an empty text and returns.  When both programs are given the text, the
\* interactive run follows the batch run.
Main(m) ==
    /\ m \in run
    /\ status[m] = "idle"
    /\ m = "gui" /\ "batch" \in run => Finished("batch")
    /\ source' = [source EXCEPT ![m] = IF m = "gui" THEN strip(code) ELSE code]
    /\ status' = [status EXCEPT ![m] =
                      IF m = "gui" /\ source'[m] = <<>> THEN "empty"
                      ELSE "scanning"]
    /\ lexpos' = [lexpos EXCEPT ![m] = 1]
    /\ tokens' = [tokens EXCEPT ![m] = <<>>]
    /\ UNCHANGED <<code, run, pos, stack, output>>

\* tokenize: one iteration of its loop; after the last match the EOF token,
\* and the caller constructs the parser and calls parse_program.  A
\* RuntimeError ends the run with the lexer's error line: no tokens are
\* returned.
Tokenize(m) ==
    /\ m \in run
    /\ status[m] = "scanning"
    /\ IF lexpos[m] > Len(source[m])
       THEN /\ tokens' = [tokens EXCEPT ![m] = tokenize_end(@)]
            /\ pos' = [pos EXCEPT ![m] = 0]
            /\ stack' = [stack EXCEPT ![m] = <<C("parse_program")>>]
            /\ status' = [status EXCEPT ![m] = "parsing"]
            /\ UNCHANGED <<lexpos, output>>
       ELSE LET r == tokenize_step(m, source[m], lexpos[m], tokens[m])
            IN  IF r.raised
                THEN /\ tokens' = [tokens EXCEPT ![m] = <<>>]
                     /\ output' = [output EXCEPT ![m] =
                            <<Entry("lexer_error", "Unexpected token", "",
                                    r.value, "", NoValue)>>]
                     /\ status' = [status EXCEPT ![m] = "lexerror"]
                     /\ UNCHANGED <<lexpos, pos, stack>>
                ELSE /\ tokens' = [tokens EXCEPT ![m] = r.tokens]
                     /\ lexpos' = [lexpos EXCEPT ![m] = r.next]
                     /\ UNCHANGED <<pos, stack, output, status>>
    /\ UNCHANGED <<code, run, source>>

Match(m) ==
    /\ Running(m)
    /\ Top(m).op = "match"
    /\ Update(m, match(Popped(m), Top(m).name, Top(m).val))

Log(m) ==
    /\ Running(m)
    /\ Top(m).op = "log"
    /\ Update(m, log(Popped(m),
                     Entry("info", Top(m).name, "", Top(m).val, "", NoValue)))

ParseProgram(m) ==
    /\ At(m, "call", "parse_program")
    /\ Update(m, parse_program(Popped(m), Top(m).at))

ParseMeta(m) ==
    /\ At(m, "call", "parse_meta")
    /\ Update(m, parse_meta(Popped(m), Top(m).at))

ParseFunction(m) ==
    /\ At(m, "call", "parse_function")
    /\ Update(m, parse_function(m, Popped(m), Top(m).at))

ParseParamList(m) ==
    /\ At(m, "call", "parse_param_list")
    /\ Update(m, parse_param_list(Popped(m), Top(m).at))

ParseStatementList(m) ==
    /\ At(m, "call", "parse_statement_list")
    /\ Update(m, parse_statement_list(Popped(m)))

ParseStatement(m) ==
    /\ At(m, "call", "parse_statement")
    /\ Update(m, parse_statement(Popped(m)))

ParseDeclaration(m) ==
    /\ At(m, "call", "parse_declaration")
    /\ Update(m, parse_declaration(Popped(m), Top(m).at))

ParseAssignment(m) ==
    /\ At(m, "call", "parse_assignment")
    /\ Update(m, parse_assignment(Popped(m)))

ParseIf(m) ==
    /\ At(m, "call", "parse_if")
    /\ Update(m, parse_if(Popped(m), Top(m).at))

ParseWhile(m) ==
    /\ At(m, "call", "parse_while")
    /\ Update(m, parse_while(Popped(m)))

ParseFor(m) ==
    /\ At(m, "call", "parse_for")
    /\ Update(m, parse_for(Popped(m), Top(m).at))

ParseDeclarationInFor(m) ==
    /\ At(m, "call", "parse_declaration_in_for")
    /\ Update(m, parse_declaration_in_for(Popped(m), Top(m).at))

ParseAssignmentInFor(m) ==
    /\ At(m, "call", "parse_assignment_in_for")
    /\ Update(m, parse_assignment_in_for(Popped(m), Top(m).at))

ParseOutput(m) ==
    /\ At(m, "call", "parse_output")
    /\ Update(m, parse_output(Popped(m)))

ParseInput(m) ==
    /\ At(m, "call", "parse_input")
    /\ Update(m, parse_input(Popped(m)))

ParseReturn(m) ==
    /\ At(m, "call", "parse_return")
    /\ Update(m, parse_return(Popped(m)))

ParseCondition(m) ==
    /\ At(m, "call", "parse_condition")
    /\ Update(m, parse_condition(Popped(m), Top(m).at))

ParseExpr(m) ==
    /\ At(m, "call", "parse_expr")
    /\ Update(m, parse_expr(Popped(m), Top(m).at))

ParseTerm(m) ==
    /\ At(m, "call", "parse_term")
    /\ Update(m, parse_term(Popped(m), Top(m).at))

ParseFactor(m) ==
    /\ At(m, "call", "parse_factor")
    /\ Update(m, parse_factor(m, Popped(m), Top(m).at))

Fresh ==
    /\ source = [m \in Modes |-> <<>>]
    /\ lexpos = [m \in Modes |-> 1]
    /\ tokens = [m \in Modes |-> <<>>]
    /\ pos = [m \in Modes |-> 0]
    /\ stack = [m \in Modes |-> <<>>]
    /\ output = [m \in Modes |-> <<>>]
    /\ status = [m \in Modes |-> "idle"]

\* One program is run on one text.
Init ==
    /\ code \in Inputs
    /\ run \in {{m} : m \in Modes}
    /\ Fresh

\* Both programs are run on the same text.
InitBoth ==
    /\ code \in Inputs
    /\ run = Modes
    /\ Fresh

Next ==
    \E m \in Modes :
        \/ Main(m)
        \/ Tokenize(m)
        \/ Match(m)
        \/ Log(m)
        \/ ParseProgram(m)
        \/ ParseMeta(m)
        \/ ParseFunction(m)
        \/ ParseParamList(m)
        \/ ParseStatementList(m)
        \/ ParseStatement(m)
        \/ ParseDeclaration(m)
        \/ ParseAssignment(m)
        \/ ParseIf(m)
        \/ ParseWhile(m)
        \/ ParseFor(m)
        \/ ParseDeclarationInFor(m)
        \/ ParseAssignmentInFor(m)
        \/ ParseOutput(m)
        \/ ParseInput(m)
        \/ ParseReturn(m)
        \/ ParseCondition(m)
        \/ ParseExpr(m)
        \/ ParseTerm(m)
        \/ ParseFactor(m)

Spec == Init /\ [][Next]_vars

SpecBoth == InitBoth /\ [][Next]_vars

\* One program is run on one whole program.
InitProgram ==
    /\ code \in Programs
    /\ run \in {{m} : m \in Modes}
    /\ Fresh

\* The interpreter runs a started program until it returns or exits.
FairSpec == InitProgram /\ [][Next]_vars /\ WF_vars(Next)

----------------------------------------------------------------------------
\* Properties.

\* tokenize has returned its token sequence.
Scanned(m) == status[m] \in {"parsing", "success", "error"}

Indices(seq) == 1..Len(seq)

\* The info entries of a record with a given message.
Entries(out, msg) == {k \in Indices(out) : out[k].tag = "info" /\ out[k].msg = msg}

\* The tokens of a kind, and those of a lexeme, among the first n.
OfKind(toks, n, kind) == {k \in 1..n : toks[k][1] = kind}
OfValue(toks, n, value) == {k \in 1..n : toks[k][2] = value}

\* C1: on every text the run ends: with the lexer's error, the success marker
\* or a syntax error.
Terminates == <>(\A m \in run : Finished(m))

\* The spellings the scanner is said to emit as one OP token.
TwoCharOps == {<<"=", "=">>, <<"!", "=">>, <<"+", "+">>, <<"-", "-">>}

\* A two-character operator at index i with no operator character around it.
IsolatedOp(text, i) ==
    /\ i + 1 <= Len(text)
    /\ <<text[i], text[i + 1]>> \in TwoCharOps
    /\ i = 1 \/ text[i - 1] \notin OpChars
    /\ i + 2 > Len(text) \/ text[i + 2] \notin OpChars

\* A text with no string and no comment in it.
PlainText(text) == \A i \in Indices(text) : text[i] \notin {"\"", "/"}

\* C2: each contiguous ==, !=, ++ and -- of the text is one OP token with the
\* two characters as its lexeme, and none of them yields ASSIGN tokens.
GreedyOperators ==
    \A m \in Modes :
        LET text == source[m]
        IN  Scanned(m) /\ PlainText(text) =>
                /\ \A i \in Indices(text) :
                       IsolatedOp(text, i) =>
                           \E k \in Indices(tokens[m]) :
                               tokens[m][k] = <<"OP", <<text[i], text[i + 1]>>>>
                /\ Cardinality(OfKind(tokens[m], Len(tokens[m]), "ASSIGN"))
                       <= Cardinality({i \in Indices(text) :
                                           /\ text[i] = "="
                                           /\ ~IsolatedOp(text, i)
                                           /\ i = 1 \/ ~IsolatedOp(text, i - 1)})

\* The statement dispatch is about to run on a bench token.
BenchAt(m) ==
    /\ At(m, "call", "parse_statement")
    /\ tokens[m][pos[m] + 1] = <<"CONTROL_KEYWORD", w_bench>>

\* C10: the statement dispatch on a bare bench ends the statement list of the
\* block: parse_statement and the parse_statement_list that called it both
\* return, with the cursor still on bench and nothing logged.
BareBenchEndsBlock ==
    [][\A m \in Modes :
           BenchAt(m) /\ stack'[m] # stack[m] =>
               /\ stack'[m] = Tail(Tail(stack[m]))
               /\ pos'[m] = pos[m]
               /\ status'[m] = "parsing"
               /\ output'[m] = output[m]]_vars

\* C3 as stated: on every text the two programs end with the same tokens,
\* the same verdict and the same record.
SameRun ==
    Finished("batch") /\ Finished("gui") =>
        /\ tokens["batch"] = tokens["gui"]
        /\ status["batch"] = status["gui"]
        /\ output["batch"] = output["gui"]

\* The text is not blank, and the whitespace at its two ends is of spaces,
\* tabs and newlines.
PlainEnds(text) ==
    /\ strip(text) # <<>>
    /\ StripOf(text, Discarded) = strip(text)

\* C3 amended: the two programs scan alike every text that is not blank and
\* has only spaces, tabs and newlines at its ends, and each such text the
\* batch recognizer accepts the interactive one accepts too, with the same
\* record.
BatchAcceptedAgree ==
    Finished("batch") /\ Finished("gui") /\ PlainEnds(code) =>
        /\ tokens["batch"] = tokens["gui"]
        /\ status["batch"] = "lexerror" <=> status["gui"] = "lexerror"
        /\ status["batch"] = "lexerror" => output["batch"] = output["gui"]
        /\ status["batch"] = "success" =>
               /\ status["gui"] = "success"
               /\ output["batch"] = output["gui"]

BothAccept ==
    /\ status["batch"] = "success"
    /\ status["gui"] = "success"
    /\ PlainEnds(code)
    /\ Len(output["gui"]) >= 5

Errors(out) == {k \in Indices(out) : out[k].tag = "error"}

\* C4: the first unmet expectation logs one diagnostic, with the category
\* and the lexeme of the token at the cursor, and ends the run: the entries
\* logged before stay, nothing is logged after, the cursor stays.
FirstErrorHalts ==
    /\ [](\A m \in Modes :
            /\ status[m] = "error" =>
                   /\ stack[m] = <<>>
                   /\ Cardinality(Errors(output[m])) = 1
                   /\ output[m][Len(output[m])].tag = "error"
                   /\ \A k \in Indices(output[m]) : output[m][k].tag # "success"
            /\ status[m] # "error" => Errors(output[m]) = {})
    /\ [][\A m \in Modes :
            /\ status[m] = "parsing" /\ status'[m] = "error" =>
                   /\ Len(output'[m]) = Len(output[m]) + 1
                   /\ SubSeq(output'[m], 1, Len(output[m])) = output[m]
                   /\ output'[m][Len(output'[m])].msg # ""
                   /\ output'[m][Len(output'[m])].kind = tokens[m][pos[m] + 1][1]
                   /\ output'[m][Len(output'[m])].value = tokens[m][pos[m] + 1][2]
                   /\ pos'[m] = pos[m]
            /\ status[m] = "error" =>
                   /\ status'[m] = "error"
                   /\ output'[m] = output[m]
                   /\ pos'[m] = pos[m]
                   /\ stack'[m] = stack[m]]_vars

ErrorAfterEntries ==
    \E m \in Modes :
        /\ status[m] = "error"
        /\ pos[m] > 0
        /\ \E k \in Indices(output[m]) : output[m][k].tag = "info"

Composite ==
    {"If statement parsed", "While parsed", "For parsed", "Function parsed"}

Simple ==
    {"Declaration parsed", "Assignment parsed", "Output parsed",
     "Input parsed", "Return parsed"}

CountMsg(out, msg) == Cardinality(Entries(out, msg))

CountKind(toks, n, kind) == Cardinality(OfKind(toks, n, kind))

CountValue(toks, n, value) == Cardinality(OfValue(toks, n, value))

\* The names directly followed by "(" among the tokens.
NamesBeforeParen(toks) ==
    {k \in 1..(Len(toks) - 1) :
        toks[k][1] \in {"ID", "FUNCTION_KEYWORD"} /\ toks[k + 1][1] = "LPAREN"}

Msgs(out) == [k \in Indices(out) |-> out[k].msg]

\* One entry for each construct of an accepted token sequence, counted by
\* the tokens that only that construct consumes.
OneEntryEach(m) ==
    LET t == tokens[m]
        n == Len(t)
        o == output[m]
    IN  /\ CountMsg(o, "Output parsed") = CountKind(t, n, "OUTPUT_KEYWORD")
        /\ CountMsg(o, "Input parsed") = CountKind(t, n, "INPUT_KEYWORD")
        /\ CountMsg(o, "If statement parsed") = CountValue(t, n, w_referee)
        /\ CountMsg(o, "While parsed") = CountValue(t, n, w_practice)
        /\ CountMsg(o, "For parsed") = CountValue(t, n, w_drill)
        /\ CountMsg(o, "Meta statement parsed") = CountValue(t, n, w_import)
        /\ CountMsg(o, "Function parsed")
               = CountKind(t, n, "LBRACE")
                 - (CountValue(t, n, w_referee) + CountValue(t, n, w_bench)
                    + CountValue(t, n, w_practice) + CountValue(t, n, w_drill))
        /\ CountMsg(o, "Function call parsed")
               = Cardinality(NamesBeforeParen(t)) - CountMsg(o, "Function parsed")
        /\ CountKind(t, n, "END")
               = CountMsg(o, "Declaration parsed") + CountMsg(o, "Assignment parsed")
                 + CountMsg(o, "Output parsed") + CountMsg(o, "Input parsed")
                 + CountMsg(o, "Return parsed") + 2 * CountMsg(o, "For parsed")
        /\ m = "batch" =>
               /\ CountMsg(o, "Return parsed") = CountValue(t, n, w_whistle)
               /\ CountMsg(o, "Function parsed") = CountValue(t, n, w_play)

\* The entry o[Len(o)] is logged with the cursor at n: its construct has just
\* ended, and every construct that ended before the cursor has its entry.
LoggedAtCompletion(m, t, n, o) ==
    LET last == o[Len(o)].msg
    IN  /\ last \in Simple =>  n > 0 /\ t[n][1] = "END"
        /\ last \in Composite =>
               /\ n > 0 /\ t[n][1] = "RBRACE"
               /\ CountKind(t, n, "RBRACE")
                      = CountMsg(o, "If statement parsed") + CountMsg(o, "While parsed")
                        + CountMsg(o, "For parsed") + CountMsg(o, "Function parsed")
                        + CountValue(t, n, w_bench)
        /\ last \in Simple \cup Composite =>
               /\ CountMsg(o, "Output parsed") = CountKind(t, n, "OUTPUT_KEYWORD")
               /\ CountMsg(o, "Input parsed") = CountKind(t, n, "INPUT_KEYWORD")
               /\ m = "batch" =>
                      CountMsg(o, "Return parsed") = CountValue(t, n, w_whistle)

\* C5: an accepted run logs one entry for each construct, each when its
\* construct completes (a function, if, while or for after everything
\* nested in it), and the completion marker last; Scenario B logs
\* declaration, output, function, completed.
TraceByCompletion ==
    /\ [](\A m \in Modes :
            status[m] = "success" =>
                /\ output[m][1].tag = "header"
                /\ output[m][Len(output[m])].tag = "success"
                /\ \A k \in 1..(Len(output[m]) - 1) : output[m][k].tag # "success"
                /\ \A k \in 2..(Len(output[m]) - 1) : output[m][k].tag = "info"
                /\ OneEntryEach(m)
                /\ code = ScenarioB =>
                       Msgs(output[m]) =
                           <<"Starting CR7 Script Parsing", "Declaration parsed",
                             "Output parsed", "Function parsed",
                             "Parsing completed successfully">>)
    /\ [][\A m \in Modes :
            Running(m) /\ Top(m).op = "log" /\ output'[m] # output[m] =>
                LoggedAtCompletion(m, tokens[m], pos[m], output'[m])]_vars

NestedAccepted ==
    \E m \in Modes :
        /\ status[m] = "success"
        /\ CountMsg(output[m], "If statement parsed") > 0
        /\ CountMsg(output[m], "Input parsed") > 0
        /\ CountMsg(output[m], "Function parsed") > 0

\* C6: a token whose lexeme is a spelling of the keyword table has the
\* category of the group that lists the spelling, never ID.
KeywordsClassified ==
    \A m \in Modes :
        \A k \in Indices(tokens[m]) :
            \A g \in Indices(KEYWORDS(m)) :
                tokens[m][k][2] \in KEYWORDS(m)[g][2] =>
                    tokens[m][k][1] = KeywordKind(KEYWORDS(m)[g][1])

KeywordAfterNumber ==
    \E m \in Modes :
        /\ Scanned(m)
        /\ \E k \in 2..Len(tokens[m]) :
               /\ tokens[m][k] = <<"META_KEYWORD", w_stadium>>
               /\ tokens[m][k - 1][1] = "NUMBER"


\* Index i of the text is inside a // comment that opens its line after
\* characters of ws only.
InComment(text, i, ws) ==
    \E j \in 1..i :
        /\ j + 1 <= Len(text)
        /\ text[j] = "/" /\ text[j + 1] = "/"
        /\ \A k \in j..i : text[k] # "\n"
        /\ \A k \in 1..(j - 1) :
               (\A l \in k..j : text[l] # "\n") => text[k] \in ws

\* The text holds only characters of ws and // line comments.
Blank(text, ws) ==
    \A i \in Indices(text) : text[i] \in ws \/ InComment(text, i, ws)

OnlyEOF(m, ws) ==
    Blank(source[m], ws) =>
        /\ status[m] # "lexerror"
        /\ status[m] = "scanning" => tokens[m] = <<>>
        /\ Scanned(m) => tokens[m] = << <<"EOF", <<>>>> >>

\* C7 as stated: a text of whitespace characters and comments yields the
\* EOF token alone, and no lexical error.
BlankTextOneToken == \A m \in Modes : OnlyEOF(m, WhitespaceChars)

\* C7 amended: a text of spaces, tabs, newlines and comments yields the EOF
\* token alone, and no lexical error.
DiscardedTextOneToken == \A m \in Modes : OnlyEOF(m, Discarded)

CommentScanned ==
    \E m \in Modes :
        /\ Scanned(m)
        /\ Blank(source[m], Discarded)
        /\ \E i \in Indices(source[m]) : source[m][i] = "/"
        /\ \E i \in Indices(source[m]) : source[m][i] \in Discarded

\* The characters that start a match of a recognized pattern wherever they
\* stand.
AlwaysRecognized ==
    WordChars \cup OpChars \cup {"(", ")", "{", "}", ",", ";", " ", "\t", "\n"}

\* In a text with no quote, slash or dot: the indices whose character no
\* recognized pattern matches.
Unrecognized(text) ==
    {i \in Indices(text) :
        /\ text[i] \notin AlwaysRecognized
        /\ ~(text[i] = "#" /\ i < Len(text) /\ text[i + 1] \in WordChars)}

NoQuoteSlashDot(text) == \A i \in Indices(text) : text[i] \notin {"\"", "/", "."}

\* C8: a character that no pattern matches makes tokenize raise, naming the
\* leftmost such character; no tokens are returned and the recognizer never
\* starts: the record holds the lexer's line alone.
LexErrorStops ==
    /\ [](\A m \in Modes :
            /\ status[m] = "lexerror" =>
                   /\ tokens[m] = <<>> /\ pos[m] = 0 /\ stack[m] = <<>>
                   /\ Len(output[m]) = 1
                   /\ output[m][1].tag = "lexer_error"
                   /\ output[m][1].arg = <<source[m][lexpos[m]]>>
            /\ status[m] # "lexerror" =>
                   \A k \in Indices(output[m]) : output[m][k].tag # "lexer_error"
            /\ NoQuoteSlashDot(source[m]) =>
                   /\ status[m] = "lexerror" =>
                          /\ lexpos[m] \in Unrecognized(source[m])
                          /\ \A i \in Unrecognized(source[m]) : lexpos[m] <= i
                   /\ Scanned(m) => Unrecognized(source[m]) = {})
    /\ [][\A m \in Modes :
            status[m] = "lexerror" =>
                /\ status'[m] = "lexerror"
                /\ output'[m] = output[m]
                /\ tokens'[m] = tokens[m]
                /\ pos'[m] = pos[m]
                /\ stack'[m] = stack[m]]_vars

LexErrorAfterTokens ==
    \E m \in Modes :
        /\ status[m] = "lexerror"
        /\ lexpos[m] > 1
        /\ NoQuoteSlashDot(source[m])
        /\ Cardinality(Unrecognized(source[m])) > 1

\* C9: a step leaves the cursor where it is or moves it one token forward.
CursorMonotone ==
    [][\A m \in Modes : pos'[m] = pos[m] \/ pos'[m] = pos[m] + 1]_vars

ErrorPastStart == \E m \in Modes : status[m] = "error" /\ pos[m] >= 5


\* The lexemes of a token sequence, one after the other.
Lexemes(toks) == Flatten([k \in Indices(toks) |-> toks[k][2]])

\* The text from index i on without its discarded matches: the matches of
\* SKIP, NEWLINE and COMMENT.
RECURSIVE WithoutDiscarded(_, _)
WithoutDiscarded(text, i) ==
    IF i > Len(text) THEN <<>>
    ELSE LET kind == lastgroup(text, i)
             n == MatchLen(kind, text, i)
         IN  (IF kind \in {"SKIP", "NEWLINE", "COMMENT"} THEN <<>>
              ELSE SubSeq(text, i, i + n - 1))
             \o WithoutDiscarded(text, i + n)

NotDiscarded(c) == c \notin Discarded

\* C11: when tokenize returns, the lexemes of its tokens, in order, are the
\* text without its discarded matches; the EOF token, the last one, adds
\* nothing.  Where the text has neither a string nor a slash, that is the
\* text without its spaces, tabs and newlines.  The recognizer leaves the
\* tokens as they are.
RoundTrip ==
    [][\A m \in Modes :
           /\ status[m] = "scanning" /\ status'[m] = "parsing" =>
                  /\ Lexemes(tokens'[m]) = WithoutDiscarded(source[m], 1)
                  /\ tokens'[m][Len(tokens'[m])] = <<"EOF", <<>>>>
                  /\ PlainText(source[m]) =>
                         Lexemes(tokens'[m])
                             = SelectSeq(source[m], NotDiscarded)
           /\ Scanned(m) => tokens'[m] = tokens[m]]_vars

\* An accepted text with a comment, and a string that holds a space.
RoundTripAcrossString ==
    \E m \in Modes :
        /\ Scanned(m)
        /\ \E k \in Indices(tokens[m]) :
               /\ tokens[m][k][1] = "STRING"
               /\ \E j \in Indices(tokens[m][k][2]) : tokens[m][k][2][j] = " "
        /\ \E i \in Indices(source[m]) : lastgroup(source[m], i) = "COMMENT"
        /\ Len(Lexemes(tokens[m])) < Len(source[m])


Names == {"ID", "FUNCTION_KEYWORD"}

\* The entries that end a statement in which an expression can stand.
StatementMsgs ==
    {"Declaration parsed", "Assignment parsed", "Output parsed",
     "Return parsed", "If statement parsed", "While parsed", "For parsed",
     "For-init declaration parsed", "For-update parsed (assignment)"}

CountParens(t, a, b, kind) == Cardinality({k \in a..b : t[k][1] = kind})

\* The "(" at index a of the tokens is closed by the ")" at index b.
MatchingParens(t, a, b) ==
    /\ t[a][1] = "LPAREN" /\ t[b][1] = "RPAREN"
    /\ CountParens(t, a, b, "LPAREN") = CountParens(t, a, b, "RPAREN")
    /\ \A c \in a..(b - 1) :
           CountParens(t, a, c, "LPAREN") > CountParens(t, a, c, "RPAREN")

CallEntry(ident) == Entry("info", "Function call parsed", "", ident, "", NoValue)

\* The frames that the step of the procedure on top has put on the stack.
Pushed(m) == SubSeq(stack'[m], 1, Len(stack'[m]) - Len(stack[m]) + 1)

\* parse_factor of the interactive recognizer on a name: a call exactly when
\* the next token is "(", else the match of the name and nothing more.
FactorOnName(m) ==
    LET kind == tokens[m][pos[m] + 1][1]
        value == tokens[m][pos[m] + 1][2]
        call == \E k \in Indices(Pushed(m)) : Pushed(m)[k] = LV("Function call parsed", value)
    IN  /\ At(m, "call", "parse_factor") /\ Top(m).at = ""
        /\ kind \in Names
        /\ stack'[m] # stack[m]
        => /\ call <=> tokens[m][pos[m] + 2][1] = "LPAREN"
           /\ Pushed(m)[1] = M(kind)
           /\ call => /\ Pushed(m)[2] = M("LPAREN")
                       /\ Pushed(m)[Len(Pushed(m)) - 1] = M("RPAREN")
                       /\ Pushed(m)[Len(Pushed(m))] = LV("Function call parsed", value)
           /\ ~call => Len(Pushed(m)) = 1
           /\ pos'[m] = pos[m] /\ output'[m] = output[m]
           /\ status'[m] = "parsing"

\* The call entry is logged with the cursor past the ")" of the call: the
\* name, "(", expressions with commas between them, ")"; the entry of the
\* statement around the call is still to come.
CallLogged(m) ==
    LET t == tokens[m]
        p == pos[m]
        ident == Top(m).val
    IN  /\ At(m, "log", "Function call parsed")
        /\ output'[m] # output[m]
        => /\ output'[m] = Append(output[m], CallEntry(ident))
           /\ \E j \in 1..(p - 2) :
                  /\ t[j][1] \in Names /\ t[j][2] = ident
                  /\ MatchingParens(t, j + 1, p)
                  /\ t[j + 2][1] # "COMMA" /\ t[p - 1][1] # "COMMA"
           /\ \E k \in Indices(stack'[m]) :
                  stack'[m][k].op = "log" /\ stack'[m][k].name \in StatementMsgs

\* C12: in the interactive recognizer a factor on an ID or a function keyword
\* is a call exactly when the next token is "(": the name, "(", the
\* expressions and ")" are consumed and one call entry is logged, before the
\* entry of the statement around it; else only the name is consumed.  The
\* name need not be declared: Scenario E is accepted, the call entry before
\* the output entry.
CallByLookahead ==
    /\ [](/\ status["gui"] = "success" =>
               \A k \in Entries(output["gui"], "Function call parsed") :
                   \E j \in (k + 1)..Len(output["gui"]) :
                       output["gui"][j].msg \in StatementMsgs
           /\ code = ScenarioE /\ Finished("gui") =>
               /\ status["gui"] = "success"
               /\ Msgs(output["gui"]) =
                      <<"Starting CR7 Script Parsing", "Function call parsed",
                        "Output parsed", "Function parsed",
                        "Parsing completed successfully">>
               /\ output["gui"][2] = CallEntry(<<"a", "d", "d">>))
    /\ [][FactorOnName("gui") /\ CallLogged("gui")]_vars

\* An accepted text with a call inside the argument of a call, a call with
\* no argument and a function keyword that stands as a name alone.
CallsAccepted ==
    /\ status["gui"] = "success"
    /\ CountMsg(output["gui"], "Function call parsed") >= 3
    /\ \E k \in 2..(Len(tokens["gui"]) - 1) :
           /\ tokens["gui"][k][1] = "FUNCTION_KEYWORD"
           /\ tokens["gui"][k - 1][1] = "OP"
           /\ tokens["gui"][k + 1][1] # "LPAREN"
    /\ \E k \in NamesBeforeParen(tokens["gui"]) :
           tokens["gui"][k + 2][1] = "RPAREN" /\ tokens["gui"][k - 1][1] = "ASSIGN"


EOFToken == <<"EOF", <<>>>>

\* C13: the tokens of tokenize hold one EOF token, the last; the cursor of
\* the recognizer always indexes one of the tokens; no step moves it past
\* the EOF token, neither match nor the increment of parse_function; an
\* accepted run ends with the cursor on the EOF token.
CursorInRange ==
    /\ [](\A m \in Modes :
            Scanned(m) =>
                /\ tokens[m][Len(tokens[m])] = EOFToken
                /\ \A k \in 1..(Len(tokens[m]) - 1) : tokens[m][k][1] # "EOF"
                /\ 0 <= pos[m] /\ pos[m] <= Len(tokens[m]) - 1
                /\ status[m] = "success" => pos[m] = Len(tokens[m]) - 1)
    /\ [][\A m \in Modes :
            Scanned(m) /\ pos'[m] # pos[m] =>
                current_token(Self(m))[1] # "EOF"]_vars

\* A procedure met the EOF token where it expected another token, after
\* consumed tokens: the run ended there, the cursor on the EOF token.
StoppedAtEOF ==
    \E m \in Modes :
        /\ status[m] = "error"
        /\ pos[m] >= 1
        /\ pos[m] = Len(tokens[m]) - 1
        /\ output[m][Len(output[m])].kind = "EOF"

====
